---- MODULE Spec2Model ----
(***************************************************************************)
(* Server-authoritative multiplayer Snake (server.js).  The state is the   *)
(* module-level game state of server.js; every socket handler and the      *)
(* timer callback tick() is one action, run to completion.                 *)
(***************************************************************************)
EXTENDS Integers, Sequences, FiniteSets, TLC

VARIABLES
  snakes,      \* the registry: snake records in key insertion order
  obstacles,   \* array of cells
  food,        \* the food item or Null
  speedMs,     \* shared tick interval
  loop,        \* the armed interval timers by period, the one loop refers to last
  resetIds,    \* tick local: ids reset by the tick that just ran
  newHeads,    \* tick local: candidate heads of the tick that just ran
  eaten,       \* tick local: per id, the type of food eaten in that tick
  tickStart,   \* the registry as the tick that just ran found it
  foodStart,   \* the food as the tick that just ran found it
  scenario,    \* the kind of run explored: solo, team, lobby or feast
  connCount,   \* connections accepted so far; numbers the socket ids
  tickCount    \* ticks run so far

vars == <<snakes, obstacles, food, speedMs, loop, resetIds, newHeads, eaten,
          tickStart, foodStart, scenario, connCount, tickCount>>

(* ---- Game constants (server.js:17-30, 40) ---- *)
CANVAS_W == 400
CANVAS_H == 400
BOX == 20
ROWS == CANVAS_H \div BOX
COLS == CANVAS_W \div BOX
START_SPEED_MS == 100
MIN_SPEED_MS == 50
SPEED_STEP_MS == 10
MILESTONE_SCORE == 5
GOLDEN_GROWTH == 2

FOOD_TYPES ==
  << [type |-> "normal", color |-> "red",    score |-> 1],
     [type |-> "golden", color |-> "yellow", score |-> 3],
     [type |-> "poison", color |-> "purple", score |-> -2] >>

COLORS == << "#22c55e", "#3b82f6", "#eab308", "#ef4444", "#a855f7", "#14b8a6" >>

(* ---- Bounds of the exploration ---- *)
\* A run is a solo run, a team run or a lobby run.  A solo run follows a
\* single connection that sends any number of move events, for SoloTicks
\* ticks.  A team run follows connections that come and go but send no
\* input, for TeamEvents connections and ticks in total.  A lobby run
\* follows a single connection that sends any number of newPlayer events,
\* for LobbyTicks ticks.  Solo and team runs are over before a golden food
\* can expire (5000 ms are at least 50 ticks); in a lobby run the ticks are
\* far enough apart for the golden food to expire between them.  A feast
\* run follows a single connection that sends nothing, for FeastTicks
\* ticks, with the random cell search landing right ahead of the snake or
\* far from it.
SoloTicks == 4
TeamEvents == 5
LobbyTicks == 3
FeastTicks == 10
\* Math.random() probes are explored on MaxProbes cells: the cell right of
\* the second spawn spot, then the cells, row by row, of the two-column
\* strip right of the first spawn spot
MaxProbes == 5

\* socket ids in the order the connections are accepted
SocketIdNames == << "s1", "s2", "s3", "s4", "s5", "s6", "s7", "s8" >>

\* the names a client submits, and the directions it sends
Names == {"", "Ann"}
Dirs == {"UP", "DOWN", "LEFT", "RIGHT"}

Scenarios == {"solo", "team", "lobby", "feast"}

\* what is left of the budget of the run
Budget ==
  CASE scenario = "solo" -> SoloTicks - tickCount
    [] scenario = "team" -> TeamEvents - (connCount + tickCount)
    [] scenario = "lobby" -> LobbyTicks - tickCount
    [] scenario = "feast" -> FeastTicks - tickCount

\* JS null / undefined
Null == [type |-> "null"]
Undefined == "undefined"

(* ---- Utility functions ---- *)
\* a maximum that lets its second argument through
Max_second(a, b) == b

Max(a, b) == IF a >= b THEN a ELSE b

cellToXY(x, y) == [x |-> x * BOX, y |-> y * BOX]

posEq(a, b) == a.x = b.x /\ a.y = b.y

\* the i-th element of a sequence of snakes that has the given id
IndexOf(sn, id) == CHOOSE i \in 1..Len(sn) : sn[i].id = id

IdsOf(sn) == {sn[i].id : i \in 1..Len(sn)}

Cells(body) == {[x |-> body[k].x, y |-> body[k].y] : k \in 1..Len(body)}

AllCells == {cellToXY(c, r) : c \in 0..(COLS - 1), r \in 0..(ROWS - 1)}

ProbeCells ==
  {cellToXY(COLS - 2, ROWS - 3)}
    \cup {cellToXY(3 + (k % 2), 2 + (k \div 2)) : k \in 0..(MaxProbes - 2)}

\* listOccupiedCells(): every snake body cell, every obstacle, the food cell
listOccupiedCells(sn, obs, fd) ==
  UNION {Cells(sn[i].body) : i \in 1..Len(sn)}
    \cup Cells(obs)
    \cup (IF fd = Null THEN {} ELSE {[x |-> fd.x, y |-> fd.y]})

\* the cells of the row of the first spawn spot right of it, and the cells
\* of the last row, in the order a feast run probes them
FeastRow == [k \in 1..(COLS - 3) |-> cellToXY(2 + k, 2)]
FarRow == [k \in 1..COLS |-> cellToXY(k - 1, ROWS - 1)]

\* the first cell of a row that is not occupied, if there is one
FirstFree(row, occ) ==
  LET free == {k \in DOMAIN row : row[k] \notin occ}
  IN IF free = {} THEN {}
     ELSE {row[CHOOSE k \in free : \A m \in free : k <= m]}

\* the cells a probe of the run explored can land on
Probes(occ) ==
  IF scenario = "feast"
  THEN FirstFree(FeastRow, occ) \cup FirstFree(FarRow, occ)
  ELSE ProbeCells

\* a cell search that does not look at what is occupied
randomFreeCell_anyCell(occ) == ProbeCells

\* randomFreeCell(): the set of cells the bounded random search can return.
\* The search returns a free cell whenever one exists on the board (the
\* 2000-probe budget is not exhausted by a board with free cells) and the
\* origin when the board is full.  The probes explored are those of
\* Probes; when all of them are occupied the search lands elsewhere.
randomFreeCell(occ) ==
  IF Probes(occ) \ occ # {} THEN Probes(occ) \ occ
  ELSE IF AllCells \ occ # {}
       THEN {CHOOSE c \in AllCells \ occ : TRUE}
       ELSE {[x |-> 0, y |-> 0]}

\* weightedFoodType(): any of the three types (each has positive weight)
weightedFoodType == {FOOD_TYPES[k] : k \in 1..Len(FOOD_TYPES)}

\* spawnFood(): the set of food items it can return.  expired abstracts
\* Date.now() > expiresAt; it is FALSE when the item is created.
spawnFood(sn, obs, fd) ==
  {[x |-> pos.x, y |-> pos.y, type |-> ft.type, color |-> ft.color,
    score |-> ft.score, expired |-> FALSE] :
      ft \in weightedFoodType, pos \in randomFreeCell(listOccupiedCells(sn, obs, fd))}

\* startPosForNewSnake(index), index counted from 0
startPosForNewSnake(index) ==
  LET spots == << cellToXY(2, 2),
                  cellToXY(COLS - 3, ROWS - 3),
                  cellToXY(2, ROWS - 3),
                  cellToXY(COLS - 3, 2),
                  cellToXY(COLS \div 2, 2),
                  cellToXY(COLS \div 2, ROWS - 3) >>
  IN spots[(index % Len(spots)) + 1]

\* createSnake(id): the record stored under snakes[id]; no name is set
createSnake(sn, id) ==
  LET index == Len(sn)
      pos == startPosForNewSnake(index)
  IN [id |-> id,
      color |-> COLORS[(index % Len(COLORS)) + 1],
      body |-> << [x |-> pos.x, y |-> pos.y] >>,
      dir |-> "RIGHT",
      pendingDir |-> "RIGHT",
      score |-> 0,
      extraGrowth |-> 0,
      milestone |-> 0,
      name |-> Undefined]

\* an opposite table that misses the horizontal pair
isOpposite_verticalOnly(a, b) ==
  \/ (a = "UP" /\ b = "DOWN")
  \/ (a = "DOWN" /\ b = "UP")

isOpposite(a, b) ==
  \/ (a = "UP" /\ b = "DOWN")
  \/ (a = "DOWN" /\ b = "UP")
  \/ (a = "LEFT" /\ b = "RIGHT")
  \/ (a = "RIGHT" /\ b = "LEFT")

\* a step that goes two cells down
nextHead_leap(head, dir) ==
  [x |-> IF dir = "LEFT" THEN head.x - BOX
         ELSE IF dir = "RIGHT" THEN head.x + BOX ELSE head.x,
   y |-> IF dir = "UP" THEN head.y - BOX
         ELSE IF dir = "DOWN" THEN head.y + 2 * BOX ELSE head.y]

\* nextHead(head, dir)
nextHead(head, dir) ==
  [x |-> IF dir = "LEFT" THEN head.x - BOX
         ELSE IF dir = "RIGHT" THEN head.x + BOX ELSE head.x,
   y |-> IF dir = "UP" THEN head.y - BOX
         ELSE IF dir = "DOWN" THEN head.y + BOX ELSE head.y]

\* a wall check that is off by one at the far edges
collideWalls_offByOne(p) == p.x < 0 \/ p.y < 0 \/ p.x > CANVAS_W \/ p.y > CANVAS_H

collideWalls(p) == p.x < 0 \/ p.y < 0 \/ p.x >= CANVAS_W \/ p.y >= CANVAS_H

collideArray(p, arr) == \E k \in 1..Len(arr) : posEq(arr[k], p)


(* ---- tick(): the world a tick works on ---- *)
\* The locals and globals tick() reads and writes while it runs: resets is
\* the Set resetIds in insertion order.
World(sn, obs, fd, sp, lp, rs, at) ==
  [snakes |-> sn, obstacles |-> obs, food |-> fd, speedMs |-> sp, loop |-> lp,
   resets |-> rs, eaten |-> at]

Range(f) == {f[k] : k \in DOMAIN f}

\* the elements of S as a sequence in increasing order of key
RECURSIVE OrderBy(_, _)
OrderBy(S, key) ==
  IF S = {} THEN << >>
  ELSE LET m == CHOOSE i \in S : \A j \in S : key[i] <= key[j]
       IN << m >> \o OrderBy(S \ {m}, key)

\* Array.prototype.pop()
pop(b) == IF Len(b) > 0 THEN SubSeq(b, 1, Len(b) - 1) ELSE b

\* a pop without the length guard
popIfLong_unguarded(b) == pop(b)

\* if (s.body.length > 1) s.body.pop()
popIfLong(b) == IF Len(b) > 1 THEN pop(b) ELSE b

\* a poison shrink of one segment
poisonShrink_once(body) == popIfLong(body)

\* poison: two guarded pops
poisonShrink(body) == popIfLong(popIfLong(body))

\* the poison score without the clamp
poisonScore_unclamped(score, delta) == score + delta

\* poison: s.score += food.score; if (s.score < 0) s.score = 0
poisonScore(score, delta) == IF score + delta < 0 THEN 0 ELSE score + delta

\* a normal food that also holds one cell of growth over
eatNormal_heldGrowth(s, fd) ==
  [s EXCEPT !.score = @ + fd.score, !.extraGrowth = @ + 1]

\* normal food: s.score += food.score
eatNormal(s, fd) == [s EXCEPT !.score = @ + fd.score]

\* a golden food that scores but holds no growth over
eatGolden_noGrowth(s, fd) == [s EXCEPT !.score = @ + fd.score]

\* golden food: s.score += food.score; s.extraGrowth += 2
eatGolden(s, fd) ==
  [s EXCEPT !.score = @ + fd.score, !.extraGrowth = @ + GOLDEN_GROWTH]

\* a self check that leaves out the tail cell the move is about to vacate
bodyToCheck_withoutTail(sn, i, j) ==
  IF j = i THEN SubSeq(sn[j].body, 1, Len(sn[j].body) - 1) ELSE sn[j].body

\* the body of snake j that the candidate head of snake i is checked
\* against: other.body.slice(0) for the snake itself, other.body otherwise
bodyToCheck(sn, i, j) == IF j = i THEN SubSeq(sn[j].body, 1, Len(sn[j].body))
                         ELSE sn[j].body

\* a milestone test that fires on every multiple of the threshold
milestoneFires_everyMultiple(score, milestone) ==
  score > 0 /\ score % MILESTONE_SCORE = 0

\* the milestone test: s.score > 0 && Math.floor(s.score / 5) > s.milestone
milestoneFires(score, milestone) ==
  score > 0 /\ (score \div MILESTONE_SCORE) > milestone

\* a milestone field that follows the score down as well as up
milestoneAfter_tracksScore(score, milestone) == score \div MILESTONE_SCORE

\* s.milestone after the milestone block: currentMilestone if it fired
milestoneAfter(score, milestone) ==
  IF milestoneFires(score, milestone) THEN score \div MILESTONE_SCORE
  ELSE milestone

\* a speed update with the wrong sign
nextSpeed_slower(sp) == Max(MIN_SPEED_MS, sp + SPEED_STEP_MS)

\* speedMs after a milestone
nextSpeed(sp) == Max(MIN_SPEED_MS, sp - SPEED_STEP_MS)

\* startLoop(): cancels the timer loop refers to, if any, and arms one
startLoop(timers, period) ==
  Append(IF Len(timers) > 0 THEN SubSeq(timers, 1, Len(timers) - 1) ELSE timers,
         period)

\* a re-arm that leaves the old timer armed
restartLoop_keepsOld(timers, period) == Append(timers, period)

\* restartLoop(): cancels the timer loop refers to, if any, and arms one
restartLoop(timers, period) ==
  Append(IF Len(timers) > 0 THEN SubSeq(timers, 1, Len(timers) - 1) ELSE timers,
         period)

\* a disconnect that resets the world whoever leaves
worldResetNeeded_always(sn) == TRUE

\* disconnect: Object.keys(snakes).length === 0
worldResetNeeded(sn) == Len(sn) = 0

\* a tick without the golden food timeout
ExpireFood_never(sn, obs, fd) == {fd}

\* golden food timeout: the food items the tick can continue with
ExpireFood(sn, obs, fd) ==
  IF fd # Null /\ fd.type = "golden" /\ fd.expired
  THEN spawnFood(sn, obs, fd)
  ELSE {fd}

\* step 1: apply the pending direction of one snake unless it is a 180 turn
CommitDir(s) ==
  IF ~isOpposite(s.dir, s.pendingDir) THEN [s EXCEPT !.dir = s.pendingDir] ELSE s

CommitDirs(sn) == [i \in 1..Len(sn) |-> CommitDir(sn[i])]

\* step 2: candidate heads, by position in the registry
ComputeNewHeads(sn) == [i \in 1..Len(sn) |-> nextHead(sn[i].body[1], sn[i].dir)]

\* a tick without the head-to-head step
HeadToHead_skipped(sn, heads) == << >>

\* step 3: ids whose candidate head is shared, in the insertion order of
\* the Set: groups by first occurrence of their cell, members by registry order
HeadToHead(sn, heads) ==
  LET n == Len(sn)
      shared == {i \in 1..n : \E j \in 1..n : j # i /\ posEq(heads[j], heads[i])}
      first(i) == CHOOSE j \in 1..n :
                    /\ posEq(heads[j], heads[i])
                    /\ \A k \in 1..n : posEq(heads[k], heads[i]) => j <= k
      key == [i \in 1..n |-> first(i) * (n + 1) + i]
      order == OrderBy(shared, key)
  IN [k \in 1..Len(order) |-> sn[order[k]].id]

\* a tail logic that does not look at whether the snake ate
tailLogic_ateIgnored(s, ate) ==
  IF s.extraGrowth > 0
  THEN [s EXCEPT !.extraGrowth = @ - 1]
  ELSE [s EXCEPT !.body = pop(@)]

\* tail logic: no pop if the snake just ate or has growth held over
tailLogic(s, ate) ==
  IF ate THEN s
  ELSE IF s.extraGrowth > 0
    THEN [s EXCEPT !.extraGrowth = @ - 1]
    ELSE [s EXCEPT !.body = pop(@)]

\* step 4, for a snake that hit nothing: move, eat, tail, milestone
MoveSnake(w, i, head) ==
  LET s == w.snakes[i]
      fd == w.food
      ate == fd # Null /\ posEq(head, fd)
      moved == [s EXCEPT !.body = << head >> \o s.body]
      fed == IF ~ate THEN moved
             ELSE IF fd.type = "normal"
               THEN eatNormal(moved, fd)
             ELSE IF fd.type = "golden"
               THEN eatGolden(moved, fd)
             ELSE IF fd.type = "poison"
               THEN [moved EXCEPT
                       !.score = poisonScore(@, fd.score),
                       !.body = poisonShrink(@)]
             ELSE moved
      foods == IF ate
               THEN spawnFood([w.snakes EXCEPT ![i] = fed], w.obstacles, fd)
               ELSE {fd}
      tailed == tailLogic(fed, ate)
      fires == milestoneFires(tailed.score, tailed.milestone)
      done == [tailed EXCEPT !.milestone = milestoneAfter(tailed.score, @)]
      sn2 == [w.snakes EXCEPT ![i] = done]
      sp2 == nextSpeed(w.speedMs)
      at2 == [w.eaten EXCEPT ![s.id] = IF ate THEN fd.type ELSE "none"]
  IN UNION { IF fires
             THEN { World(sn2, Append(w.obstacles, [x |-> pos.x, y |-> pos.y]),
                          f, sp2, restartLoop(w.loop, sp2), w.resets, at2) :
                      pos \in randomFreeCell(listOccupiedCells(sn2, w.obstacles, f)) }
             ELSE { World(sn2, w.obstacles, f, w.speedMs, w.loop, w.resets, at2) }
           : f \in foods }

\* a step 4 that also resolves the snakes the head-to-head step has marked
ResolveSnake_marksIgnored(w, i, heads) ==
  LET s == w.snakes[i]
      head == heads[i]
      marked == [w EXCEPT !.resets = IF s.id \in Range(@) THEN @ ELSE Append(@, s.id)]
  IN IF collideWalls(head) THEN {marked}
     ELSE IF collideArray(head, w.obstacles) THEN {marked}
     ELSE IF \E j \in 1..Len(w.snakes) :
                collideArray(head, bodyToCheck(w.snakes, i, j))
       THEN {marked}
     ELSE MoveSnake(w, i, head)

\* step 4 for the snake at position i: walls, obstacles, bodies, then move
ResolveSnake(w, i, heads) ==
  LET s == w.snakes[i]
      head == heads[i]
      marked == [w EXCEPT !.resets = Append(@, s.id)]
  IN IF s.id \in Range(w.resets) THEN {w}
     ELSE IF collideWalls(head) THEN {marked}
     ELSE IF collideArray(head, w.obstacles) THEN {marked}
     ELSE IF \E j \in 1..Len(w.snakes) :
                collideArray(head, bodyToCheck(w.snakes, i, j))
       THEN {marked}
     ELSE MoveSnake(w, i, head)

RECURSIVE ResolveFrom(_, _, _)
ResolveFrom(w, i, heads) ==
  IF i > Len(w.snakes) THEN {w}
  ELSE UNION {ResolveFrom(w2, i + 1, heads) : w2 \in ResolveSnake(w, i, heads)}

\* a reset that forgets the milestone field
resetSnake_keepsMilestone(w, id) ==
  LET i == IndexOf(w.snakes, id)
  IN { [w EXCEPT !.snakes[i] =
          [@ EXCEPT !.body = << [x |-> pos.x, y |-> pos.y] >>,
                    !.dir = "RIGHT",
                    !.pendingDir = "RIGHT",
                    !.extraGrowth = 0,
                    !.score = 0]] :
        pos \in randomFreeCell(listOccupiedCells(w.snakes, w.obstacles, w.food)) }

\* resetSnake(id): randomFreeCell() always returns a cell, so the
\* startPosForNewSnake alternative of the || is never taken
resetSnake(w, id) ==
  LET i == IndexOf(w.snakes, id)
  IN { [w EXCEPT !.snakes[i] =
          [@ EXCEPT !.body = << [x |-> pos.x, y |-> pos.y] >>,
                    !.dir = "RIGHT",
                    !.pendingDir = "RIGHT",
                    !.extraGrowth = 0,
                    !.score = 0,
                    !.milestone = 0]] :
        pos \in randomFreeCell(listOccupiedCells(w.snakes, w.obstacles, w.food)) }

\* step 5: resetIds.forEach(resetSnake), in insertion order
RECURSIVE ResetAll(_, _)
ResetAll(w, k) ==
  IF k > Len(w.resets) THEN {w}
  ELSE UNION {ResetAll(w2, k + 1) : w2 \in resetSnake(w, w.resets[k])}

\* tick(): every world it can end in
TickOutcomes ==
  LET committed == CommitDirs(snakes)
      heads == ComputeNewHeads(committed)
  IN UNION { UNION { ResetAll(w, 1) :
                       w \in ResolveFrom(World(committed, obstacles, f, speedMs, loop,
                                               HeadToHead(committed, heads),
                                               [id \in IdsOf(snakes) |-> "none"]),
                                         1, heads) }
             : f \in ExpireFood(snakes, obstacles, food) }

\* step 6: the entry of one snake in the snapshot; name is s.name ?? ''
payloadSnake(s) ==
  [id |-> s.id, color |-> s.color, body |-> s.body, score |-> s.score,
   name |-> IF s.name = Undefined THEN "" ELSE s.name]

\* step 6: the snapshot a tick that ends in the current state broadcasts
payload ==
  [w |-> CANVAS_W, h |-> CANVAS_H, box |-> BOX, speedMs |-> speedMs,
   food |-> food, obstacles |-> obstacles,
   snakes |-> [i \in 1..Len(snakes) |-> payloadSnake(snakes[i])]]

(* ---- Initial state: module load followed by startLoop() ---- *)
Init ==
  /\ snakes = << >>
  /\ obstacles = << >>
  /\ food = Null
  /\ speedMs = START_SPEED_MS
  /\ loop = startLoop(<< >>, START_SPEED_MS)
  /\ resetIds = {}
  /\ newHeads = << >>
  /\ eaten = << >>
  /\ tickStart = << >>
  /\ foodStart = Null
  /\ scenario \in Scenarios
  /\ connCount = 0
  /\ tickCount = 0

\* handlers other than tick() leave no tick locals behind
NoTickLocals ==
  /\ resetIds' = {} /\ newHeads' = << >> /\ eaten' = << >>
  /\ tickStart' = << >> /\ foodStart' = Null

(* ---- Timer callback ---- *)
Tick ==
  /\ Budget > 0
  /\ \E w \in TickOutcomes :
       /\ snakes' = w.snakes
       /\ obstacles' = w.obstacles
       /\ food' = w.food
       /\ speedMs' = w.speedMs
       /\ loop' = w.loop
       /\ resetIds' = Range(w.resets)
       /\ eaten' = w.eaten
  /\ tickStart' = snakes
  /\ foodStart' = food
  /\ newHeads' = LET committed == CommitDirs(snakes)
                     heads == ComputeNewHeads(committed)
                 IN [id \in IdsOf(snakes) |-> heads[IndexOf(snakes, id)]]
  /\ tickCount' = tickCount + 1
  /\ UNCHANGED <<scenario, connCount>>

(* ---- Socket handlers ---- *)
\* a connection handler that spawns no food
Connect_noFood(id) ==
  /\ IF scenario = "team" THEN Budget > 0 ELSE connCount = 0
  /\ id = SocketIdNames[connCount + 1]
  /\ snakes' = Append(snakes, createSnake(snakes, id))
  /\ food' = food
  /\ NoTickLocals
  /\ connCount' = connCount + 1
  /\ UNCHANGED <<obstacles, speedMs, loop, scenario, tickCount>>

\* io.on("connection")
Connect(id) ==
  /\ IF scenario = "team" THEN Budget > 0 ELSE connCount = 0
  /\ id = SocketIdNames[connCount + 1]
  /\ snakes' = Append(snakes, createSnake(snakes, id))
  /\ IF food = Null
     THEN food' \in spawnFood(snakes', obstacles, food)
     ELSE food' = food
  /\ NoTickLocals
  /\ connCount' = connCount + 1
  /\ UNCHANGED <<obstacles, speedMs, loop, scenario, tickCount>>

\* socket.on("newPlayer")
NewPlayer(id, name) ==
  /\ id \in IdsOf(snakes)
  /\ scenario = "lobby"
  /\ snakes' = [snakes EXCEPT ![IndexOf(snakes, id)].name =
                                 IF name = "" THEN id ELSE name]
  /\ NoTickLocals
  /\ UNCHANGED <<obstacles, food, speedMs, loop, scenario, connCount, tickCount>>

\* the ids of the sockets that have connected so far
Connected == {SocketIdNames[k] : k \in 1..connCount}

\* a move handler that turns the snake at once
Move_appliedAtOnce(id, dir) ==
  /\ id \in Connected
  /\ scenario = "solo"
  /\ snakes' = IF id \notin IdsOf(snakes) THEN snakes
               ELSE [snakes EXCEPT ![IndexOf(snakes, id)].pendingDir = dir,
                                   ![IndexOf(snakes, id)].dir = dir]
  /\ NoTickLocals
  /\ UNCHANGED <<obstacles, food, speedMs, loop, scenario, connCount, tickCount>>

\* socket.on("move"): returns at once if the socket has no snake
Move(id, dir) ==
  /\ id \in Connected
  /\ scenario = "solo"
  /\ snakes' = IF id \notin IdsOf(snakes) THEN snakes
               ELSE [snakes EXCEPT ![IndexOf(snakes, id)].pendingDir = dir]
  /\ NoTickLocals
  /\ UNCHANGED <<obstacles, food, speedMs, loop, scenario, connCount, tickCount>>

\* a disconnect that leaves the food where it is when the last snake goes
Disconnect_keepsFood(id) ==
  /\ id \in IdsOf(snakes)
  /\ snakes' = SelectSeq(snakes, LAMBDA s : s.id # id)
  /\ IF worldResetNeeded(snakes')
     THEN /\ obstacles' = << >>
          /\ food' = food
          /\ speedMs' = START_SPEED_MS
          /\ loop' = restartLoop(loop, START_SPEED_MS)
     ELSE UNCHANGED <<obstacles, food, speedMs, loop>>
  /\ NoTickLocals
  /\ UNCHANGED <<scenario, connCount, tickCount>>

\* socket.on("disconnect")
Disconnect(id) ==
  /\ id \in IdsOf(snakes)
  /\ snakes' = SelectSeq(snakes, LAMBDA s : s.id # id)
  /\ IF worldResetNeeded(snakes')
     THEN /\ obstacles' = << >>
          /\ food' = Null
          /\ speedMs' = START_SPEED_MS
          /\ loop' = restartLoop(loop, START_SPEED_MS)
     ELSE UNCHANGED <<obstacles, food, speedMs, loop>>
  /\ NoTickLocals
  /\ UNCHANGED <<scenario, connCount, tickCount>>

\* the wall clock passes the expiry timestamp of the golden food
GoldenExpires ==
  /\ scenario = "lobby"
  /\ food # Null
  /\ food.type = "golden"
  /\ ~food.expired
  /\ food' = [food EXCEPT !.expired = TRUE]
  /\ NoTickLocals
  /\ UNCHANGED <<snakes, obstacles, speedMs, loop, scenario, connCount,
                 tickCount>>

SocketIds == Range(SocketIdNames)

Next ==
  \/ Tick
  \/ \E id \in SocketIds : Connect(id)
  \/ \E id \in SocketIds, name \in Names : NewPlayer(id, name)
  \/ \E id \in SocketIds, dir \in Dirs : Move(id, dir)
  \/ \E id \in SocketIds : Disconnect(id)
  \/ GoldenExpires

Spec == Init /\ [][Next]_vars

(* ---- Properties ---- *)
\* the record of the snake with the given id in a registry
SnakeIn(sn, id) == sn[IndexOf(sn, id)]

\* C1: every snake's body has at least one cell in every reachable state,
\* also right after a tick in which a snake of length 1 or 2 ate poison.
C1_BodyNonEmpty == \A i \in 1..Len(snakes) : Len(snakes[i].body) >= 1

\* a snake of length 1 has just eaten poison and still has one cell
C1_Witness ==
  \E i \in 1..Len(snakes) :
    /\ snakes[i].id \in DOMAIN eaten
    /\ eaten[snakes[i].id] = "poison"
    /\ Len(SnakeIn(tickStart, snakes[i].id).body) = 1
    /\ Len(snakes[i].body) = 1

\* C2: every snake's score is >= 0 in every reachable state, and a tick in
\* which a snake eats poison leaves it with max(0, score - 2).
C2_ScoreNonNegative ==
  /\ \A i \in 1..Len(snakes) : snakes[i].score >= 0
  /\ \A i \in 1..Len(snakes) :
       (snakes[i].id \in DOMAIN eaten /\ eaten[snakes[i].id] = "poison")
         => snakes[i].score = Max(0, SnakeIn(tickStart, snakes[i].id).score - 2)

\* a snake with score 0 or 1 has just eaten poison and its score is 0
C2_Witness ==
  \E i \in 1..Len(snakes) :
    /\ snakes[i].id \in DOMAIN eaten
    /\ eaten[snakes[i].id] = "poison"
    /\ SnakeIn(tickStart, snakes[i].id).score = 1
    /\ snakes[i].score = 0

\* the heading pairing UP/DOWN, LEFT/RIGHT
OppositeHeading(d) ==
  CASE d = "UP" -> "DOWN"
    [] d = "DOWN" -> "UP"
    [] d = "LEFT" -> "RIGHT"
    [] d = "RIGHT" -> "LEFT"

\* the cell one cell width away from c in heading d
Stepped(c, d) ==
  CASE d = "UP" -> [x |-> c.x, y |-> c.y - BOX]
    [] d = "DOWN" -> [x |-> c.x, y |-> c.y + BOX]
    [] d = "LEFT" -> [x |-> c.x - BOX, y |-> c.y]
    [] d = "RIGHT" -> [x |-> c.x + BOX, y |-> c.y]

\* C3: in a tick, a snake whose pending heading is the opposite of its
\* heading h moves with heading h, and any other pending heading is the one
\* it moves with; a snake that is not reset keeps that heading.
C3_DirectionCommit ==
  [][tickCount' = tickCount + 1 =>
       \A i \in 1..Len(snakes) :
         LET s == snakes[i]
             used == IF s.pendingDir = OppositeHeading(s.dir)
                     THEN s.dir ELSE s.pendingDir
         IN /\ newHeads'[s.id] = Stepped(s.body[1], used)
            /\ (s.id \notin resetIds' => SnakeIn(snakes', s.id).dir = used)]_vars

\* a tick has just moved a snake whose pending heading was the opposite of
\* its heading, and it kept its heading
C3_Witness ==
  \E i \in 1..Len(snakes) :
    /\ snakes[i].id \in DOMAIN newHeads
    /\ snakes[i].id \notin resetIds
    /\ SnakeIn(tickStart, snakes[i].id).pendingDir =
         OppositeHeading(SnakeIn(tickStart, snakes[i].id).dir)
    /\ snakes[i].dir = SnakeIn(tickStart, snakes[i].id).dir
    /\ snakes[i].body[1] = newHeads[snakes[i].id]

\* a cell of the board
OnBoard(c) == c.x >= 0 /\ c.y >= 0 /\ c.x < 400 /\ c.y < 400

\* the state resetSnake leaves a snake in
IsFresh(s) ==
  /\ Len(s.body) = 1
  /\ s.dir = "RIGHT" /\ s.pendingDir = "RIGHT"
  /\ s.score = 0 /\ s.extraGrowth = 0 /\ s.milestone = 0

\* C4: after a tick, every snake whose candidate head was shared with another
\* snake has been reset, and a snake whose candidate head was shared with
\* nobody and was on the board, on no obstacle and on no cell of a body as
\* the tick found it has not been reset and has that head.
C4_HeadToHead ==
  \A i \in 1..Len(tickStart) :
    LET id == tickStart[i].id
        h == newHeads[id]
        shared == \E j \in 1..Len(tickStart) :
                    j # i /\ newHeads[tickStart[j].id] = h
        clear == /\ ~shared
                 /\ OnBoard(h)
                 /\ h \notin Cells(obstacles)
                 /\ \A j \in 1..Len(tickStart) : h \notin Cells(tickStart[j].body)
    IN /\ shared => (id \in resetIds /\ IsFresh(SnakeIn(snakes, id)))
       /\ clear => (id \notin resetIds /\ SnakeIn(snakes, id).body[1] = h)

\* two snakes met head to head and were reset while a third one moved on
C4_Witness ==
  \E a \in DOMAIN newHeads, b \in DOMAIN newHeads, c \in DOMAIN newHeads :
    /\ a # b /\ a # c /\ b # c
    /\ newHeads[a] = newHeads[b]
    /\ newHeads[c] # newHeads[a]
    /\ a \in resetIds /\ b \in resetIds
    /\ c \notin resetIds
    /\ SnakeIn(snakes, c).body[1] = newHeads[c]

\* C5: after a tick, every snake whose candidate head was a cell of some
\* snake's body as the tick found it has been reset, whatever the order of
\* the snakes in the registry.
C5_PreMoveBodies ==
  \A i \in 1..Len(tickStart) :
    (\E j \in 1..Len(tickStart) :
        newHeads[tickStart[i].id] \in Cells(tickStart[j].body))
      => tickStart[i].id \in resetIds

\* C6: after a tick, every snake whose candidate head was a cell of its own
\* body as the tick found it, the tail cell included, has been reset and
\* has not moved there.
C6_SelfCollision ==
  \A i \in 1..Len(tickStart) :
    newHeads[tickStart[i].id] \in Cells(tickStart[i].body)
      => /\ tickStart[i].id \in resetIds
         /\ IsFresh(SnakeIn(snakes, tickStart[i].id))

\* a snake of several cells has just headed into its own tail cell and
\* been reset
C6_Witness ==
  \E i \in 1..Len(tickStart) :
    /\ Len(tickStart[i].body) >= 2
    /\ newHeads[tickStart[i].id] = tickStart[i].body[Len(tickStart[i].body)]
    /\ tickStart[i].id \in resetIds
    /\ IsFresh(SnakeIn(snakes, tickStart[i].id))

\* the step in which the last remaining snake disconnects
LastLeaves == snakes # << >> /\ snakes' = << >>

\* C7 as stated: no step ever raises the shared tick interval.
C7_NeverRaised == [][speedMs' <= speedMs]_vars

\* C7 as amended: the disconnect of the last remaining snake sets the
\* interval to its start value; no other step raises it, and a step lowers
\* it only if it is a tick in which a snake's milestone went up.
C7_RaisedOnlyByWorldReset ==
  [][IF LastLeaves
     THEN speedMs' = START_SPEED_MS
     ELSE /\ speedMs' <= speedMs
          /\ speedMs' < speedMs =>
               /\ tickCount' = tickCount + 1
               /\ \E i \in 1..Len(snakes) :
                    SnakeIn(snakes', snakes[i].id).milestone > snakes[i].milestone]_vars

\* a milestone has lowered the interval
C7_Witness ==
  /\ speedMs < START_SPEED_MS
  /\ \E i \in 1..Len(snakes) :
       /\ snakes[i].id \in DOMAIN eaten
       /\ snakes[i].milestone > SnakeIn(tickStart, snakes[i].id).milestone

\* C8: from one state to the next the milestone of a snake that stays
\* connected never decreases unless the step is a tick that resets that snake.
C8_MilestoneMonotone ==
  [][\A i \in 1..Len(snakes) :
       snakes[i].id \in IdsOf(snakes') =>
         \/ SnakeIn(snakes', snakes[i].id).milestone >= snakes[i].milestone
         \/ (tickCount' = tickCount + 1 /\ snakes[i].id \in resetIds')]_vars

\* a snake has just eaten poison, its score is below the threshold it was
\* rewarded for, and its milestone is what it was
C8_Witness ==
  \E i \in 1..Len(snakes) :
    /\ snakes[i].id \in DOMAIN eaten
    /\ eaten[snakes[i].id] = "poison"
    /\ snakes[i].milestone >= 1
    /\ snakes[i].score < 5 * snakes[i].milestone
    /\ snakes[i].milestone = SnakeIn(tickStart, snakes[i].id).milestone

\* C9: the disconnect of the last remaining snake empties the obstacle list;
\* in every other step the list keeps every obstacle it has, in place, and
\* can only get longer.
C9_ObstaclesPermanent ==
  [][IF LastLeaves
     THEN obstacles' = << >>
     ELSE /\ Len(obstacles') >= Len(obstacles)
          /\ SubSeq(obstacles', 1, Len(obstacles)) = obstacles]_vars

\* a tick has just reset a snake, no milestone went up in it, and there are
\* obstacles
C9_Witness ==
  /\ obstacles # << >>
  /\ resetIds # {}
  /\ \A i \in 1..Len(snakes) :
       snakes[i].milestone <= SnakeIn(tickStart, snakes[i].id).milestone

\* C10: a tick adds one obstacle and takes 10 ms off the interval (not below
\* the minimum) for each snake it does not reset whose score after the tick
\* is > 0 with floor(score/5) above the milestone it had, and for no other
\* snake; those snakes record floor(score/5), the others keep their milestone.
C10_MilestoneOnce ==
  [][tickCount' = tickCount + 1 =>
       LET kept == {i \in 1..Len(snakes) : snakes[i].id \notin resetIds'}
           after(i) == SnakeIn(snakes', snakes[i].id)
           fired == {i \in kept : /\ after(i).score > 0
                                  /\ after(i).score \div 5 > snakes[i].milestone}
       IN /\ Len(obstacles') = Len(obstacles) + Cardinality(fired)
          /\ speedMs' = Max(MIN_SPEED_MS, speedMs - 10 * Cardinality(fired))
          /\ \A i \in kept :
               after(i).milestone = IF i \in fired THEN after(i).score \div 5
                                    ELSE snakes[i].milestone]_vars

\* a snake whose score had fallen below 5 after it was rewarded for 5 has
\* just eaten its way back to 5 or more, and its milestone is what it was
C10_Witness ==
  \E i \in 1..Len(snakes) :
    /\ snakes[i].id \in DOMAIN eaten
    /\ eaten[snakes[i].id] \in {"normal", "golden"}
    /\ SnakeIn(tickStart, snakes[i].id).score < 5
    /\ SnakeIn(tickStart, snakes[i].id).milestone = 1
    /\ snakes[i].score >= 5
    /\ snakes[i].milestone = 1

\* C11 as stated: a snake with body [(40,40)], score 0 and no growth held
\* over that heads RIGHT into a normal food at (60,40) ends the tick with
\* body [(60,40)], score 1 and extra-growth 0.
C11_NormalFoodKeepsLength ==
  \A i \in 1..Len(tickStart) :
    LET before == tickStart[i]
        after == SnakeIn(snakes, before.id)
    IN (/\ before.body = << [x |-> 40, y |-> 40] >>
        /\ before.score = 0 /\ before.extraGrowth = 0
        /\ newHeads[before.id] = [x |-> 60, y |-> 40]
        /\ eaten[before.id] = "normal")
       => (/\ after.body = << [x |-> 60, y |-> 40] >>
           /\ after.score = 1
           /\ after.extraGrowth = 0)

\* C11 as amended: that snake ends the tick with body [(60,40), (40,40)]
\* (the tail is not popped in a tick in which the snake eats), score 1 and
\* extra-growth 0.
C11_NormalFoodGrowsByOne ==
  \A i \in 1..Len(tickStart) :
    LET before == tickStart[i]
        after == SnakeIn(snakes, before.id)
    IN (/\ before.body = << [x |-> 40, y |-> 40] >>
        /\ before.score = 0 /\ before.extraGrowth = 0
        /\ newHeads[before.id] = [x |-> 60, y |-> 40]
        /\ eaten[before.id] = "normal")
       => (/\ after.body = << [x |-> 60, y |-> 40], [x |-> 40, y |-> 40] >>
           /\ after.score = 1
           /\ after.extraGrowth = 0)

\* the snake of the scenario has just eaten the normal food at (60,40)
C11_Witness ==
  \E i \in 1..Len(tickStart) :
    /\ tickStart[i].body = << [x |-> 40, y |-> 40] >>
    /\ tickStart[i].score = 0 /\ tickStart[i].extraGrowth = 0
    /\ tickStart[i].dir = "RIGHT"
    /\ newHeads[tickStart[i].id] = [x |-> 60, y |-> 40]
    /\ eaten[tickStart[i].id] = "normal"
    /\ SnakeIn(snakes, tickStart[i].id).score = 1

C13_PoisonShrink ==
  \A i \in 1..Len(tickStart) :
    LET before == tickStart[i]
        after == SnakeIn(snakes, before.id)
        grown == << newHeads[before.id] >> \o before.body
    IN eaten[before.id] = "poison" =>
         /\ after.score = Max(0, before.score - 2)
         /\ Len(after.body) = Max(1, Len(before.body) - 1)
         /\ after.body = SubSeq(grown, 1, Len(after.body))
         /\ (Len(before.body) = 2 /\ before.score = 1) =>
              (after.score = 0 /\ Len(after.body) = 1)

\* a snake with two cells and score 1 has just eaten poison
C13_Witness ==
  \E i \in 1..Len(tickStart) :
    /\ eaten[tickStart[i].id] = "poison"
    /\ Len(tickStart[i].body) = 2
    /\ tickStart[i].score = 1
    /\ SnakeIn(snakes, tickStart[i].id).score = 0
    /\ SnakeIn(snakes, tickStart[i].id).body = << newHeads[tickStart[i].id] >>

\* C14: a tick leaves the registry with the same snakes in the same order,
\* each with the id, colour and name it had; every snake the tick resets
\* ends it with a body of one cell, heading and pending heading RIGHT, and
\* score, extra-growth and milestone 0.
C14_BatchReset ==
  [][tickCount' = tickCount + 1 =>
       /\ Len(snakes') = Len(snakes)
       /\ resetIds' \subseteq IdsOf(snakes)
       /\ \A i \in 1..Len(snakes) :
            /\ snakes'[i].id = snakes[i].id
            /\ snakes'[i].color = snakes[i].color
            /\ snakes'[i].name = snakes[i].name
            /\ snakes[i].id \in resetIds' =>
                 /\ Len(snakes'[i].body) = 1
                 /\ snakes'[i].dir = "RIGHT"
                 /\ snakes'[i].pendingDir = "RIGHT"
                 /\ snakes'[i].score = 0
                 /\ snakes'[i].extraGrowth = 0
                 /\ snakes'[i].milestone = 0]_vars

\* a snake that had a score, a milestone and several cells has just been
\* reset
C14_Witness ==
  \E i \in 1..Len(tickStart) :
    /\ tickStart[i].id \in resetIds
    /\ tickStart[i].score > 0
    /\ tickStart[i].milestone > 0
    /\ Len(tickStart[i].body) > 1
    /\ snakes[i].id = tickStart[i].id
    /\ snakes[i].score = 0
    /\ snakes[i].milestone = 0
    /\ Len(snakes[i].body) = 1

\* C15: a move event of a socket that has a snake sets the pending heading
\* of that snake to the heading sent and changes nothing else: not its
\* heading, body or score, not another snake, not the food, the obstacles
\* or the interval; a move event of a socket without a snake changes
\* nothing.  A tick moves the head of a snake it does not reset by one cell.
C15_MoveOnlyPending ==
  [][/\ \A id \in Connected, d \in Dirs :
          Move(id, d) =>
            /\ Len(snakes') = Len(snakes)
            /\ \A i \in 1..Len(snakes) :
                 IF snakes[i].id = id
                 THEN /\ snakes'[i].pendingDir = d
                      /\ [snakes'[i] EXCEPT !.pendingDir = snakes[i].pendingDir]
                           = snakes[i]
                 ELSE snakes'[i] = snakes[i]
            /\ UNCHANGED <<obstacles, food, speedMs, loop>>
     /\ tickCount' = tickCount + 1 =>
          \A i \in 1..Len(snakes) :
            snakes[i].id \notin resetIds' =>
              \E d \in Dirs :
                SnakeIn(snakes', snakes[i].id).body[1] = Stepped(snakes[i].body[1], d)]_vars

\* a move event has arrived before the first tick: the snake still is where
\* it was created, heading RIGHT, and the heading sent is pending
C15_Witness ==
  /\ tickCount = 0
  /\ \E i \in 1..Len(snakes) :
       /\ snakes[i].pendingDir = "UP"
       /\ snakes[i].dir = "RIGHT"
       /\ snakes[i].body = << [x |-> 40, y |-> 40] >>

\* the registry sn without the k-th snake
Without(sn, k) == SubSeq(sn, 1, k - 1) \o SubSeq(sn, k + 1, Len(sn))

\* C16: a step that takes a snake out of the registry takes out exactly one
\* and leaves the others as they are; if snakes remain, obstacles, food and
\* interval are unchanged, and if none remains there are no obstacles and no
\* food and the interval is the start value.  In every state without snakes
\* there are no obstacles, no food, and the interval is the start value.
C16_DisconnectFrame ==
  /\ [](snakes = << >> =>
          (obstacles = << >> /\ food = Null /\ speedMs = START_SPEED_MS))
  /\ [][Len(snakes') < Len(snakes) =>
          /\ \E k \in 1..Len(snakes) : snakes' = Without(snakes, k)
          /\ IF snakes' = << >>
             THEN obstacles' = << >> /\ food' = Null /\ speedMs' = START_SPEED_MS
             ELSE UNCHANGED <<obstacles, food, speedMs>>]_vars

\* every snake has left after a game with ticks: the world is empty again
C16_Witness ==
  /\ connCount >= 2
  /\ tickCount >= 1
  /\ snakes = << >>
  /\ obstacles = << >> /\ food = Null /\ speedMs = START_SPEED_MS

\* C17: in the snapshot of every tick a snake that has received no
\* newPlayer event has its id as name, and a newPlayer event changes only
\* the name of the sender's snake.
C17_NameDefaultsToId ==
  /\ [](\A i \in 1..Len(tickStart) :
          snakes[i].name = Undefined => payload.snakes[i].name = snakes[i].id)
  /\ [][\A id \in Connected, n \in Names :
          NewPlayer(id, n) =>
            /\ Len(snakes') = Len(snakes)
            /\ \A i \in 1..Len(snakes) :
                 [snakes'[i] EXCEPT !.name = snakes[i].name] = snakes[i]]_vars

\* the cell of a food item
FoodCell(f) == [x |-> f.x, y |-> f.y]

\* C18: the food a handler leaves behind, if it was spawned in that handler,
\* lies on no cell that was occupied when it was spawned.  On a connection
\* that is every body, the new snake's included, and every obstacle.  In a
\* tick it is every obstacle, the cell of the food it replaces, and every
\* body as it is at that moment: as the tick leaves it for the snakes that
\* moved before the spawn, the eater included, and as the tick found it for
\* the snakes that come later or are marked for reset.
C18_FoodSpawnsFree ==
  [][/\ (food = Null /\ food' # Null) =>
          /\ \A j \in 1..Len(snakes') : FoodCell(food') \notin Cells(snakes'[j].body)
          /\ FoodCell(food') \notin Cells(obstacles')
     /\ tickCount' = tickCount + 1 =>
          LET eaters == {i \in 1..Len(snakes) : eaten'[snakes[i].id] # "none"}
              last == IF eaters = {} THEN 0
                      ELSE CHOOSE i \in eaters : \A j \in eaters : j <= i
              expiry == food # Null /\ food.type = "golden" /\ food.expired
              bodyAtSpawn(j) ==
                IF j <= last /\ snakes[j].id \notin resetIds'
                THEN snakes'[j].body ELSE snakes[j].body
          IN (last > 0 \/ expiry) =>
               /\ food' # Null
               /\ \A j \in 1..Len(snakes) :
                    FoodCell(food') \notin Cells(bodyAtSpawn(j))
               /\ FoodCell(food') \notin Cells(obstacles')
               /\ last = 0 => FoodCell(food') # FoodCell(food)
               /\ last > 0 => FoodCell(food') # newHeads'[snakes[last].id]]_vars

\* a snake has just eaten with obstacles on the board, and there is a new
\* food
C18_Witness ==
  /\ \E id \in DOMAIN eaten : eaten[id] # "none"
  /\ obstacles # << >>
  /\ food # Null
  /\ FoodCell(food) \notin Cells(obstacles)
  /\ \A j \in 1..Len(snakes) : FoodCell(food) \notin Cells(snakes[j].body)

\* the distance between two numbers
Dist(a, b) == IF a >= b THEN a - b ELSE b - a

\* C19: in every state every snake's body is a chain: each cell is one cell
\* width (20) away from the one before it on exactly one axis, and no cell
\* occurs twice in the body.
C19_BodyIsChain ==
  \A i \in 1..Len(snakes) :
    LET b == snakes[i].body
    IN /\ \A k \in 1..(Len(b) - 1) :
            \/ (Dist(b[k].x, b[k + 1].x) = 20 /\ b[k].y = b[k + 1].y)
            \/ (Dist(b[k].y, b[k + 1].y) = 20 /\ b[k].x = b[k + 1].x)
       /\ \A k \in 1..Len(b), m \in 1..Len(b) : b[k] = b[m] => k = m

\* a snake that grew to four cells and turned twice
C19_Witness ==
  \E i \in 1..Len(snakes) :
    LET b == snakes[i].body
    IN /\ Len(b) >= 4
       /\ b[1].x # b[2].x
       /\ b[2].y # b[3].y
       /\ b[3].x # b[4].x

\* C20: a step that adds a snake to the registry puts it on a cell that is
\* no cell of another snake's body, no obstacle and not the cell of the food
\* that exists at that moment.
C20_SpawnCellFree ==
  [][Len(snakes') > Len(snakes) =>
       LET new == snakes'[Len(snakes')]
       IN /\ \A j \in 1..Len(snakes) : new.body[1] \notin Cells(snakes[j].body)
          /\ new.body[1] \notin Cells(obstacles)
          /\ food # Null => new.body[1] # FoodCell(food)]_vars

\* the golden food has passed its expiry timestamp
Expired(f) == f # Null /\ f.type = "golden" /\ f.expired

\* C21: a snake that a tick resets has eaten nothing in it and ends it as
\* resetSnake leaves it; its body stays where the tick found it for the
\* whole tick, so any snake that heads into a cell of it is reset as well;
\* obstacles are added and the interval is lowered only on account of
\* snakes that are not reset; and if every snake whose candidate head is
\* the food cell is reset and the food has not expired, the food item after
\* the tick is the one before it.
C21_ResetSkipsRest ==
  [][tickCount' = tickCount + 1 =>
       LET reset == {i \in 1..Len(snakes) : snakes[i].id \in resetIds'}
           atFood == {i \in 1..Len(snakes) :
                        food # Null /\ newHeads'[snakes[i].id] = FoodCell(food)}
           rewarded == {i \in 1..Len(snakes) \ reset :
                          snakes'[i].milestone > snakes[i].milestone}
       IN /\ \A i \in reset :
               /\ eaten'[snakes[i].id] = "none"
               /\ IsFresh(snakes'[i])
          /\ \A i \in 1..Len(snakes), j \in reset :
               newHeads'[snakes[i].id] \in Cells(snakes[j].body) => i \in reset
          /\ Len(obstacles') = Len(obstacles) + Cardinality(rewarded)
          /\ speedMs' = Max(MIN_SPEED_MS, speedMs - 10 * Cardinality(rewarded))
          /\ rewarded = {} => loop' = loop
          /\ (atFood \subseteq reset /\ ~Expired(food)) => food' = food]_vars

\* two snakes have just headed into the food cell together and been reset,
\* and the food is still there
C21_Witness ==
  \E a \in resetIds, b \in resetIds :
    /\ a # b
    /\ food # Null
    /\ newHeads[a] = FoodCell(food)
    /\ newHeads[b] = FoodCell(food)
    /\ eaten[a] = "none" /\ eaten[b] = "none"
    /\ IsFresh(SnakeIn(snakes, a)) /\ IsFresh(SnakeIn(snakes, b))
    /\ food = foodStart

\* C22: in every state no snake has a negative extra-growth.  A snake that
\* a tick does not reset, with length L and extra-growth g before it: if it
\* ate normal or golden food, its body is its new head followed by its old
\* body (length L+1) and there is a food item after the tick that is not
\* the one eaten and not on the cell it was eaten on; if it did not eat and
\* g > 0, its body is the new head followed by the old body and its
\* extra-growth is g-1; if it did not eat and g = 0, its length is L and its
\* extra-growth 0.
C22_LengthRule ==
  /\ [](\A i \in 1..Len(snakes) : snakes[i].extraGrowth >= 0)
  /\ [][tickCount' = tickCount + 1 =>
          \A i \in 1..Len(snakes) :
            LET before == snakes[i]
                after == snakes'[i]
                ate == eaten'[before.id]
                grown == << newHeads'[before.id] >> \o before.body
            IN before.id \notin resetIds' =>
                 /\ ate \in {"normal", "golden"} =>
                      /\ after.body = grown
                      /\ food' # Null /\ food' # food
                      /\ FoodCell(food') # newHeads'[before.id]
                 /\ (ate = "none" /\ before.extraGrowth > 0) =>
                      /\ after.body = grown
                      /\ after.extraGrowth = before.extraGrowth - 1
                 /\ (ate = "none" /\ before.extraGrowth = 0) =>
                      /\ after.body = SubSeq(grown, 1, Len(before.body))
                      /\ after.extraGrowth = 0]_vars

\* a snake with growth held over has just eaten normal food: it is one cell
\* longer and the growth is still held over
C22_Witness ==
  \E i \in 1..Len(tickStart) :
    LET before == tickStart[i]
        after == SnakeIn(snakes, before.id)
    IN /\ before.id \notin resetIds
       /\ eaten[before.id] = "normal"
       /\ before.extraGrowth > 0
       /\ Len(after.body) = Len(before.body) + 1
       /\ after.extraGrowth = before.extraGrowth
       /\ food # Null

\* C23: a tick that finds a golden food past its expiry replaces it before
\* anything else: after the tick there is a food item that is not expired
\* and is not that one; the first snake to eat in the tick, if any, eats on
\* another cell than the expired food's; if no snake eats, the new food is
\* on another cell than the expired one, on no obstacle and on no cell of a
\* body as the tick found it; and a snake that is not reset and does not
\* eat keeps its score.  A tick that finds a food that is not an expired
\* golden one, and in which no snake eats, leaves that food as it is.
C23_ExpiryFirst ==
  [][tickCount' = tickCount + 1 =>
       LET eaters == {i \in 1..Len(snakes) : eaten'[snakes[i].id] # "none"}
           first == CHOOSE i \in eaters : \A j \in eaters : i <= j
       IN /\ Expired(food) =>
               /\ food' # Null /\ food' # food /\ ~food'.expired
               /\ eaters # {} => newHeads'[snakes[first].id] # FoodCell(food)
               /\ eaters = {} =>
                    /\ FoodCell(food') # FoodCell(food)
                    /\ FoodCell(food') \notin Cells(obstacles)
                    /\ \A j \in 1..Len(snakes) :
                         FoodCell(food') \notin Cells(snakes[j].body)
               /\ \A i \in 1..Len(snakes) :
                    (snakes[i].id \notin resetIds' /\ i \notin eaters)
                      => snakes'[i].score = snakes[i].score
          /\ (~Expired(food) /\ eaters = {}) => food' = food]_vars

\* a snake has just headed into the cell of a golden food that had expired:
\* it has moved there, has not eaten and has the score it had, and the food
\* is another item on another cell
C23_Witness ==
  /\ Expired(foodStart)
  /\ food # Null
  /\ FoodCell(food) # FoodCell(foodStart)
  /\ \E i \in 1..Len(tickStart) :
       /\ newHeads[tickStart[i].id] = FoodCell(foodStart)
       /\ tickStart[i].id \notin resetIds
       /\ eaten[tickStart[i].id] = "none"
       /\ snakes[i].body[1] = FoodCell(foodStart)
       /\ snakes[i].score = tickStart[i].score

\* C24: in every state exactly one interval timer is armed and its period is
\* the shared tick interval.  A tick in which a milestone re-arms the timer
\* runs to its end: every snake it marked is reset, every other snake has
\* moved to its candidate head, and one timer is armed at the new interval.
\* The disconnect of the last snake leaves one timer at the start interval.
C24_OneTimer ==
  /\ [](Len(loop) = 1 /\ loop[1] = speedMs)
  /\ [][(tickCount' = tickCount + 1 /\ Len(obstacles') > Len(obstacles)) =>
          /\ loop' = << speedMs' >>
          /\ \A i \in 1..Len(snakes) :
               IF snakes[i].id \in resetIds'
               THEN IsFresh(snakes'[i])
               ELSE snakes'[i].body[1] = newHeads'[snakes[i].id]]_vars
  /\ [][LastLeaves => loop' = << START_SPEED_MS >>]_vars

\* a milestone has just lowered the interval and re-armed the timer, a
\* snake resolved after that in the same tick has been reset, and one timer
\* runs at the new interval
C24_Witness ==
  /\ \E i \in 1..Len(tickStart), j \in 1..Len(tickStart) :
       /\ i < j
       /\ snakes[i].milestone > tickStart[i].milestone
       /\ snakes[i].body[1] = newHeads[snakes[i].id]
       /\ snakes[j].id \in resetIds
       /\ IsFresh(snakes[j])
  /\ speedMs = START_SPEED_MS - SPEED_STEP_MS
  /\ loop = << speedMs >>

C26_FoodIffSnakes == (food = Null) <=> (snakes = << >>)

\* the second socket has connected to a world that the first had left
\* empty, and there is food again
C26_Witness ==
  /\ tickCount = 0
  /\ Len(snakes) = 1
  /\ snakes[1].id = "s2"
  /\ snakes[1].body = << startPosForNewSnake(0) >>
  /\ food # Null

\* a cell of the board, on the grid
OnGrid(c) == OnBoard(c) /\ c.x % 20 = 0 /\ c.y % 20 = 0

\* C27: in every state every cell of every body, the food cell and every
\* obstacle lie on the board (0 <= x < 400, 0 <= y < 400) and on the grid
\* of 20; after a tick, a snake whose candidate head was off the board has
\* been reset and has not moved there.
C27_AllOnBoard ==
  /\ \A i \in 1..Len(snakes) : \A c \in Cells(snakes[i].body) : OnGrid(c)
  /\ \A c \in Cells(obstacles) : OnGrid(c)
  /\ food # Null => OnGrid(FoodCell(food))
  /\ \A id \in DOMAIN newHeads :
       ~OnBoard(newHeads[id]) =>
         (id \in resetIds /\ IsFresh(SnakeIn(snakes, id)))

\* a snake has just headed off the board and been reset to a cell of it
C27_Witness ==
  \E id \in DOMAIN newHeads :
    /\ ~OnBoard(newHeads[id])
    /\ id \in resetIds
    /\ Len(SnakeIn(snakes, id).body) = 1
    /\ OnGrid(SnakeIn(snakes, id).body[1])

TypeOK ==
  /\ speedMs \in MIN_SPEED_MS..START_SPEED_MS
  /\ Budget >= 0

====
